---- MODULE Spec2Model ----
(***************************************************************************)
(* Model of lambda_s3_cost_report.py: the Athena query / poll loop, the    *)
(* per-(table, prefix) aggregation of the result rows, the top-N ranking,  *)
(* the CSV report rows, the upload and the SES notification.               *)
(*                                                                         *)
(* Text of a numeric CSV field is a sequence of one-character strings, so  *)
(* that float() / int(float()) are computed by parsing.  Costs are held in *)
(* millionths of a dollar (an integer), sizes in bytes, counts as integers.*)
(* The texts modelled are plain decimals ([sign] digits [. digits]) and    *)
(* texts float() rejects; exponents, "nan" and "inf" are not modelled.     *)
(***************************************************************************)
EXTENDS Integers, Sequences, FiniteSets, TLC

VARIABLES pc, idx, query_ids, state, prefixes, TOP_N, top_prefixes,
          report_rows, s3_puts, ses_sent, log

vars == <<pc, idx, query_ids, state, prefixes, TOP_N, top_prefixes,
          report_rows, s3_puts, ses_sent, log>>

(* ---------------- bounds and configuration ---------------- *)

\* rows the CSV readers deliver in one run, over all tables
MaxRows == 3

\* values of the TOP_N environment variable explored (15 is the default)
TopNValues == {-1, 0, 2, 15}

TABLE_NAMES == <<"my_bucket_1", "my_bucket_2", "my_bucket_3">>

report_header == <<"rank", "table", "prefix", "total_cost_usd", "total_size_gb",
                   "total_objects", "storage_class",
                   "intelligent_tiering_access_tier", "object_count", "size_gb",
                   "estimated_cost_usd">>

\* records the CSV reader can deliver: an empty record, one of 4 fields, and
\* records of 6 and 7 fields whose numeric text is a decimal, malformed, empty
\* or negative
RawRows ==
  { <<>>,
    <<"a", "STANDARD", "", <<"1", "0">>>>,
    <<"a", "STANDARD", "", <<"1", "0">>, <<"2", "6", "8", "4", "3", "5", "4", "5", "6">>, <<"2", "1", ".", "5">>>>,
    <<"a", "GLACIER", "", <<"a", "b", "c">>, <<>>, <<"n", "o">>, "extra">>,
    <<"", "", "", <<"-", "3", ".", "9">>, <<"-", "1", "0", "2", "4">>, <<"-", "4", ".", "0">>>> }

(* ---------------- text to number ---------------- *)

DigitOf ==
  ("0" :> 0) @@ ("1" :> 1) @@ ("2" :> 2) @@ ("3" :> 3) @@ ("4" :> 4) @@
  ("5" :> 5) @@ ("6" :> 6) @@ ("7" :> 7) @@ ("8" :> 8) @@ ("9" :> 9)

AllDigits(s) == \A i \in 1..Len(s) : s[i] \in DOMAIN DigitOf

RECURSIVE DigitsValue(_)
DigitsValue(s) ==
  IF s = <<>> THEN 0
  ELSE 10 * DigitsValue(SubSeq(s, 1, Len(s) - 1)) + DigitOf[s[Len(s)]]

RECURSIVE Pow10(_)
Pow10(n) == IF n = 0 THEN 1 ELSE 10 * Pow10(n - 1)

\* position of the first decimal point, 0 when there is none
RECURSIVE DotFrom(_, _)
DotFrom(s, i) ==
  IF i > Len(s) THEN 0 ELSE IF s[i] = "." THEN i ELSE DotFrom(s, i + 1)

\* a numeric text split into its sign, the digits before the first point and
\* the text after it
Split(val) ==
  LET signed == Len(val) > 0 /\ val[1] \in {"-", "+"}
      u == IF signed THEN SubSeq(val, 2, Len(val)) ELSE val
      dot == DotFrom(u, 1)
  IN [ neg |-> signed /\ val[1] = "-",
       int |-> IF dot = 0 THEN u ELSE SubSeq(u, 1, dot - 1),
       frac |-> IF dot = 0 THEN <<>> ELSE SubSeq(u, dot + 1, Len(u)) ]

\* the texts float() accepts, among those modelled: [sign] digits [. digits]
\* with a digit on at least one side of the point and at most 6 after it
ParsesAsFloat(val) ==
  LET t == Split(val) IN
    /\ AllDigits(t.int)
    /\ AllDigits(t.frac)
    /\ Len(t.int) + Len(t.frac) > 0
    /\ Len(t.frac) <= 6

\* float(val) as sign, whole part and fraction in millionths
FloatValue(val) ==
  LET t == Split(val)
  IN [ neg |-> t.neg,
       whole |-> DigitsValue(t.int),
       millionths |-> DigitsValue(t.frac) * Pow10(6 - Len(t.frac)) ]

Signed(neg, mag) == IF neg THEN 0 - mag ELSE mag

\* a float as a number of millionths
Millionths(x) == Signed(x.neg, x.whole * 1000000 + x.millionths)

\* int(x) truncates toward zero
IntOfFloat(x) == Signed(x.neg, x.whole)

float_or_zero(val) == IF ParsesAsFloat(val) THEN Millionths(FloatValue(val)) ELSE 0

int_or_zero(val) == IF ParsesAsFloat(val) THEN IntOfFloat(FloatValue(val)) ELSE 0

\* bytes / 1024**3, kept as the exact fraction
bytes_to_gb(num_bytes) == [num |-> num_bytes, den |-> 1073741824]

\* f"{x:.6f}" and f"{x:.2f}": the text is determined by the value and the precision
Format(x, digits) == [value |-> x, precision |-> digits]

(* ---------------- row normalisation and aggregation ---------------- *)

OrDefault(text, default) == IF text = "" THEN default ELSE text

\* line 219
PrefixOf(row) == OrDefault(row[1], "(empty)")

\* lines 219-224: the fields of an accepted row
Normalize(row) ==
  [ prefix |-> PrefixOf(row),
    storage_class |-> OrDefault(row[2], "UNKNOWN"),
    itt |-> OrDefault(row[3], ""),
    object_count |-> int_or_zero(row[4]),
    total_size |-> int_or_zero(row[5]),
    estimated_cost |-> float_or_zero(row[6]) ]

\* the dict prefixes is a sequence of entries in insertion order
KeyIndex(P, key) ==
  IF \E i \in 1..Len(P) : P[i].key = key
  THEN CHOOSE i \in 1..Len(P) : P[i].key = key
  ELSE 0

NewAccumulator(table, prefix) ==
  [ key |-> <<table, prefix>>,
    table |-> table,
    prefix |-> prefix,
    total_size_bytes |-> 0,
    total_objects |-> 0,
    total_cost_usd |-> 0,
    breakdown |-> <<>> ]

BreakdownEntry(m) ==
  [ storage_class |-> m.storage_class,
    intelligent_tiering_access_tier |-> m.itt,
    object_count |-> m.object_count,
    total_size_bytes |-> m.total_size,
    estimated_cost_usd |-> m.estimated_cost ]

\* AddMeasurement with the cost total assigned ("=") where the code adds ("+=")
AddMeasurementAssignsCost(P, table, m) ==
  LET key == <<table, m.prefix>>
      P1 == IF KeyIndex(P, key) = 0 THEN Append(P, NewAccumulator(table, m.prefix)) ELSE P
      i == KeyIndex(P1, key)
  IN [P1 EXCEPT ![i] =
        [@ EXCEPT !.total_size_bytes = @ + m.total_size,
                  !.total_objects = @ + m.object_count,
                  !.total_cost_usd = m.estimated_cost,
                  !.breakdown = Append(@, BreakdownEntry(m))]]

\* AddMeasurement with the object count left out of the running total
AddMeasurementDropsCount(P, table, m) ==
  LET key == <<table, m.prefix>>
      P1 == IF KeyIndex(P, key) = 0 THEN Append(P, NewAccumulator(table, m.prefix)) ELSE P
      i == KeyIndex(P1, key)
  IN [P1 EXCEPT ![i] =
        [@ EXCEPT !.total_size_bytes = @ + m.total_size,
                  !.total_cost_usd = @ + m.estimated_cost,
                  !.breakdown = Append(@, BreakdownEntry(m))]]

\* lines 226-246: fold one measurement into the mapping
AddMeasurement(P, table, m) ==
  LET key == <<table, m.prefix>>
      P1 == IF KeyIndex(P, key) = 0 THEN Append(P, NewAccumulator(table, m.prefix)) ELSE P
      i == KeyIndex(P1, key)
  IN [P1 EXCEPT ![i] =
        [@ EXCEPT !.total_size_bytes = @ + m.total_size,
                  !.total_objects = @ + m.object_count,
                  !.total_cost_usd = @ + m.estimated_cost,
                  !.breakdown = Append(@, BreakdownEntry(m))]]

\* line 217
IsShortRow(row) == row = <<>> \/ Len(row) < 6

\* ProcessRow with a short record padded with empty fields instead of discarded
ProcessRowPadded(P, table, row) ==
  LET padded == [i \in 1..6 |-> IF i <= Len(row) THEN row[i]
                                ELSE IF i <= 3 THEN "" ELSE <<>>]
  IN AddMeasurement(P, table, Normalize(IF Len(row) < 6 THEN padded ELSE row))

\* lines 217-246: the body of the row loop
ProcessRow(P, table, row) ==
  IF IsShortRow(row) THEN P ELSE AddMeasurement(P, table, Normalize(row))

(* ---------------- ranking ---------------- *)

\* InsertDesc without reverse=True: ascending by key
RECURSIVE InsertAsc(_, _, _)
InsertAsc(order, keys, i) ==
  IF order = <<>> THEN <<i>>
  ELSE IF keys[order[Len(order)]] <= keys[i] THEN Append(order, i)
  ELSE Append(InsertAsc(SubSeq(order, 1, Len(order) - 1), keys, i), order[Len(order)])

\* InsertDesc as an ascending sort read backwards: equal keys in reverse order
RECURSIVE InsertDescLastFirst(_, _, _)
InsertDescLastFirst(order, keys, i) ==
  IF order = <<>> THEN <<i>>
  ELSE IF keys[order[Len(order)]] > keys[i] THEN Append(order, i)
  ELSE Append(InsertDescLastFirst(SubSeq(order, 1, Len(order) - 1), keys, i),
              order[Len(order)])

\* sorted(..., reverse=True) on a list with the given keys: the order of the
\* indices, descending by key, equal keys in their original order
RECURSIVE InsertDesc(_, _, _)
InsertDesc(order, keys, i) ==
  IF order = <<>> THEN <<i>>
  ELSE IF keys[order[Len(order)]] >= keys[i] THEN Append(order, i)
  ELSE Append(InsertDesc(SubSeq(order, 1, Len(order) - 1), keys, i), order[Len(order)])

RECURSIVE SortedReverseOrder(_, _)
SortedReverseOrder(keys, n) ==
  IF n = 0 THEN <<>> ELSE InsertDesc(SortedReverseOrder(keys, n - 1), keys, n)

SortedReverse(items, keys) ==
  LET order == SortedReverseOrder(keys, Len(items))
  IN [i \in 1..Len(items) |-> items[order[i]]]

\* s[:n]
SliceTo(s, n) ==
  IF n >= 0 THEN SubSeq(s, 1, IF n < Len(s) THEN n ELSE Len(s))
  ELSE SubSeq(s, 1, IF Len(s) + n > 0 THEN Len(s) + n ELSE 0)

\* lines 249-252
AllPrefixes(P) ==
  [i \in 1..Len(P) |-> <<P[i].table, P[i].prefix, P[i].total_cost_usd, P[i]>>]

TopPrefixes(P, n) ==
  LET all_prefixes == AllPrefixes(P)
  IN SliceTo(SortedReverse(all_prefixes, [i \in 1..Len(all_prefixes) |-> all_prefixes[i][3]]), n)

(* ---------------- report rows ---------------- *)

SummaryRow(rank, e) ==
  <<rank, e[1], e[2], Format(e[4].total_cost_usd, 6),
    Format(bytes_to_gb(e[4].total_size_bytes), 6), e[4].total_objects,
    "", "", "", "", "">>

BreakdownRow(rank, e, b) ==
  <<rank, e[1], e[2], "", "", "", b.storage_class,
    b.intelligent_tiering_access_tier, b.object_count,
    Format(bytes_to_gb(b.total_size_bytes), 6), Format(b.estimated_cost_usd, 6)>>

\* EntryRows with one breakdown row per distinct tier key (its first entry)
EntryRowsPerTier(rank, e) ==
  LET bd == e[4].breakdown
      sorted == SortedReverse(bd, [i \in 1..Len(bd) |-> bd[i].estimated_cost_usd])
      first == SelectSeq([i \in 1..Len(sorted) |-> <<i, sorted[i]>>],
                         LAMBDA x : \A j \in 1..(x[1] - 1) :
                                      <<sorted[j].storage_class,
                                        sorted[j].intelligent_tiering_access_tier>>
                                      # <<x[2].storage_class,
                                          x[2].intelligent_tiering_access_tier>>)
  IN <<SummaryRow(rank, e)>> \o [i \in 1..Len(first) |-> BreakdownRow(rank, e, first[i][2])]

\* lines 275-303: the rows of one ranked entry
EntryRows(rank, e) ==
  LET bd == e[4].breakdown
      sorted == SortedReverse(bd, [i \in 1..Len(bd) |-> bd[i].estimated_cost_usd])
  IN <<SummaryRow(rank, e)>> \o [i \in 1..Len(sorted) |-> BreakdownRow(rank, e, sorted[i])]

\* lines 270-304
RECURSIVE ReportRows(_, _)
ReportRows(top, rank) ==
  IF rank > Len(top) THEN <<>>
  ELSE EntryRows(rank, top[rank]) \o ReportRows(top, rank + 1)

\* lines 322-326
EmailLines(top) ==
  [i \in 1..Len(top) |->
     <<i, top[i][1], top[i][2], Format(top[i][4].total_cost_usd, 2),
       Format(bytes_to_gb(top[i][4].total_size_bytes), 2)>>]

(* ---------------- the handler ---------------- *)

Init ==
  /\ pc = "start"
  /\ idx = 1
  /\ query_ids = <<>>
  /\ state = "none"
  /\ prefixes = <<>>
  /\ TOP_N \in TopNValues
  /\ top_prefixes = <<>>
  /\ report_rows = <<>>
  /\ s3_puts = <<>>
  /\ ses_sent = <<>>
  /\ log = <<>>

\* StartQuery that goes on to poll the query it has just started
StartQueryThenPoll ==
  /\ pc = "start"
  /\ query_ids' = Append(query_ids, <<TABLE_NAMES[idx], idx>>)
  /\ idx' = 1 /\ pc' = "poll"
  /\ UNCHANGED <<state, prefixes, TOP_N, top_prefixes, report_rows, s3_puts, ses_sent, log>>

\* lines 150-185: one iteration of the loop that starts the queries
StartQuery ==
  /\ pc = "start"
  /\ query_ids' = Append(query_ids, <<TABLE_NAMES[idx], idx>>)
  /\ IF idx < Len(TABLE_NAMES)
     THEN idx' = idx + 1 /\ pc' = "start"
     ELSE idx' = 1 /\ pc' = "poll"
  /\ UNCHANGED <<state, prefixes, TOP_N, top_prefixes, report_rows, s3_puts, ses_sent, log>>

\* the continue / end of one iteration of the loop over query_ids
NextTable ==
  IF idx < Len(query_ids)
  THEN idx' = idx + 1 /\ pc' = "poll"
  ELSE idx' = idx /\ pc' = "rank"

\* lines 191-196: the query is still queued or running
PollNotFinished ==
  /\ pc = "poll"
  /\ \E s \in {"QUEUED", "RUNNING"} : state' = s
  /\ pc' = "sleep"
  /\ UNCHANGED <<idx, query_ids, prefixes, TOP_N, top_prefixes, report_rows, s3_puts, ses_sent, log>>

\* line 196
Sleep ==
  /\ pc = "sleep"
  /\ pc' = "poll"
  /\ UNCHANGED <<idx, query_ids, state, prefixes, TOP_N, top_prefixes, report_rows, s3_puts, ses_sent, log>>

\* QueryFailed without the continue: the result of a failed query is fetched
QueryFailedFetches ==
  /\ pc = "poll"
  /\ \E s \in {"FAILED", "CANCELLED"} : state' = s
  /\ pc' = "fetch"
  /\ UNCHANGED <<idx, query_ids, prefixes, TOP_N, top_prefixes, report_rows, s3_puts, ses_sent, log>>

\* lines 191-200: the query ended FAILED or CANCELLED, the table is skipped
QueryFailed ==
  /\ pc = "poll"
  /\ \E s \in {"FAILED", "CANCELLED"} : state' = s
  /\ NextTable
  /\ UNCHANGED <<query_ids, prefixes, TOP_N, top_prefixes, report_rows, s3_puts, ses_sent, log>>

\* lines 191-204: the query ended SUCCEEDED
QuerySucceeded ==
  /\ pc = "poll"
  /\ state' = "SUCCEEDED"
  /\ pc' = "fetch"
  /\ UNCHANGED <<idx, query_ids, prefixes, TOP_N, top_prefixes, report_rows, s3_puts, ses_sent, log>>

\* lines 205-209: get_object raises, the table is skipped
GetObjectFails ==
  /\ pc = "fetch"
  /\ NextTable
  /\ UNCHANGED <<query_ids, state, prefixes, TOP_N, top_prefixes, report_rows, s3_puts, ses_sent, log>>

\* lines 206-213: the result object is read and its header row consumed
GetObject ==
  /\ pc = "fetch"
  /\ pc' = "rows"
  /\ UNCHANGED <<idx, query_ids, state, prefixes, TOP_N, top_prefixes, report_rows, s3_puts, ses_sent, log>>

\* lines 216-246: the reader delivers one record
ReadRow ==
  /\ pc = "rows"
  /\ Len(log) < MaxRows
  /\ \E row \in RawRows :
       /\ prefixes' = ProcessRow(prefixes, query_ids[idx][1], row)
       /\ log' = Append(log, <<query_ids[idx][1], row>>)
  /\ UNCHANGED <<pc, idx, query_ids, state, TOP_N, top_prefixes, report_rows, s3_puts, ses_sent>>

\* line 216: the reader is exhausted
EndOfRows ==
  /\ pc = "rows"
  /\ NextTable
  /\ UNCHANGED <<query_ids, state, prefixes, TOP_N, top_prefixes, report_rows, s3_puts, ses_sent, log>>

\* lines 249-252
PickTop ==
  /\ pc = "rank"
  /\ top_prefixes' = TopPrefixes(prefixes, TOP_N)
  /\ pc' = "render"
  /\ UNCHANGED <<idx, query_ids, state, prefixes, TOP_N, report_rows, s3_puts, ses_sent, log>>

\* lines 255-304
BuildReport ==
  /\ pc = "render"
  /\ report_rows' = ReportRows(top_prefixes, 1)
  /\ pc' = "upload"
  /\ UNCHANGED <<idx, query_ids, state, prefixes, TOP_N, top_prefixes, s3_puts, ses_sent, log>>

\* lines 307-316
UploadReport ==
  /\ pc = "upload"
  /\ s3_puts' = Append(s3_puts, [key |-> <<"top", TOP_N>>,
                                 body |-> <<report_header>> \o report_rows])
  /\ pc' = "email"
  /\ UNCHANGED <<idx, query_ids, state, prefixes, TOP_N, top_prefixes, report_rows, ses_sent, log>>

\* lines 319-344
SendEmail ==
  /\ pc = "email"
  /\ ses_sent' = Append(ses_sent, [subject |-> <<"top", TOP_N>>,
                                   lines |-> EmailLines(top_prefixes)])
  /\ pc' = "done"
  /\ UNCHANGED <<idx, query_ids, state, prefixes, TOP_N, top_prefixes, report_rows, s3_puts, log>>

Next ==
  \/ StartQuery
  \/ PollNotFinished
  \/ Sleep
  \/ QueryFailed
  \/ QuerySucceeded
  \/ GetObjectFails
  \/ GetObject
  \/ ReadRow
  \/ EndOfRows
  \/ PickTop
  \/ BuildReport
  \/ UploadReport
  \/ SendEmail

Spec == Init /\ [][Next]_vars

\* the run always proceeds; a started query eventually reports SUCCEEDED,
\* FAILED or CANCELLED
LiveSpec == Spec /\ WF_vars(Next) /\ SF_vars(QueryFailed \/ QuerySucceeded)

(* ---------------- vocabulary of the properties ---------------- *)

Range(s) == {s[i] : i \in 1..Len(s)}

Min(a, b) == IF a < b THEN a ELSE b

Ranked == pc \in {"render", "upload", "email", "done"}

Rendered == pc \in {"upload", "email", "done"}

Terminal == {"SUCCEEDED", "FAILED", "CANCELLED"}

RECURSIVE SumOver(_, _)
SumOver(s, field) ==
  IF s = <<>> THEN 0
  ELSE SumOver(SubSeq(s, 1, Len(s) - 1), field) + s[Len(s)][field]

TierKey(b) == <<b.storage_class, b.intelligent_tiering_access_tier>>

TierKeys(acc) == {TierKey(b) : b \in Range(acc.breakdown)}

IsSummaryRow(r) == r[7] = ""

RowsOfRank(r) == SelectSeq(report_rows, LAMBDA x : x[1] = r)

Accepted(i) == ~IsShortRow(log[i][2])

KeyOfLog(i) == <<log[i][1], PrefixOf(log[i][2])>>

\* position in the run of the row that created the accumulator with this key
FirstSeen(key) ==
  CHOOSE i \in 1..Len(log) :
    /\ Accepted(i) /\ KeyOfLog(i) = key
    /\ \A j \in 1..(i - 1) : ~(Accepted(j) /\ KeyOfLog(j) = key)

InTop(acc) == \E i \in 1..Len(top_prefixes) : top_prefixes[i][4].key = acc.key

\* the mapping built from the rows of a log, in its order
RECURSIVE Aggregate(_)
Aggregate(l) ==
  IF l = <<>> THEN <<>>
  ELSE ProcessRow(Aggregate(SubSeq(l, 1, Len(l) - 1)), l[Len(l)][1], l[Len(l)][2])

\* the rows read so far with the rows at positions i and j exchanged
Exchanged(i, j) ==
  [k \in 1..Len(log) |-> IF k = i THEN log[j] ELSE IF k = j THEN log[i] ELSE log[k]]

\* two rows of the same table
SameTable(i, j) == i < j /\ log[i][1] = log[j][1]

Keys(P) == {P[i].key : i \in 1..Len(P)}

Lookup(P, key) == P[KeyIndex(P, key)]

BagOf(s) == [e \in Range(s) |-> Cardinality({i \in 1..Len(s) : s[i] = e})]

SameTotals(a, b) ==
  /\ a.total_cost_usd = b.total_cost_usd
  /\ a.total_size_bytes = b.total_size_bytes
  /\ a.total_objects = b.total_objects

(* ---------------- C1 ---------------- *)

\* C1: the ranked list has min(TOP_N, number of accumulators) entries when
\* TOP_N > 0 and is empty when TOP_N <= 0.
C1_TopNBounded ==
  Ranked => Len(top_prefixes) = (IF TOP_N > 0 THEN Min(TOP_N, Len(prefixes)) ELSE 0)

(* ---------------- C2 ---------------- *)

\* C2: in every state of the aggregation pass and after it, each accumulator's
\* total cost, total size and total object count equal the sums over its
\* breakdown list.
C2_SumInvariant ==
  \A i \in 1..Len(prefixes) :
    /\ prefixes[i].total_cost_usd = SumOver(prefixes[i].breakdown, "estimated_cost_usd")
    /\ prefixes[i].total_size_bytes = SumOver(prefixes[i].breakdown, "total_size_bytes")
    /\ prefixes[i].total_objects = SumOver(prefixes[i].breakdown, "object_count")

C2_Witness ==
  /\ pc = "rows"
  /\ \E i, j \in 1..Len(prefixes) :
       /\ prefixes[i].table # prefixes[j].table
       /\ Len(prefixes[i].breakdown) >= 2
       /\ prefixes[i].total_cost_usd # 0

(* ---------------- C3 ---------------- *)

\* C3: every measurement has object count, size and cost >= 0, and no accumulator
\* total is ever negative.
C3_NonNegative ==
  \A i \in 1..Len(prefixes) :
    /\ prefixes[i].total_cost_usd >= 0
    /\ prefixes[i].total_size_bytes >= 0
    /\ prefixes[i].total_objects >= 0
    /\ \A k \in 1..Len(prefixes[i].breakdown) :
         /\ prefixes[i].breakdown[k].estimated_cost_usd >= 0
         /\ prefixes[i].breakdown[k].total_size_bytes >= 0
         /\ prefixes[i].breakdown[k].object_count >= 0

(* ---------------- C4 ---------------- *)

\* C4 as stated: each ranked accumulator is rendered as 1 + D rows, D the number
\* of distinct tier keys among its measurements.
C4_RowsPerDistinctTier ==
  Rendered =>
    \A r \in 1..Len(top_prefixes) :
      Len(RowsOfRank(r)) = 1 + Cardinality(TierKeys(top_prefixes[r][4]))

\* C4 amended: each ranked accumulator is rendered as one summary row followed by
\* one breakdown row per measurement in its breakdown list, 1 + M rows; that is
\* 1 + D rows exactly when no tier key arrived twice for it.
C4_RowsPerMeasurement ==
  Rendered =>
    \A r \in 1..Len(top_prefixes) :
      LET rows == RowsOfRank(r)
          acc == top_prefixes[r][4]
      IN /\ Len(rows) = 1 + Len(acc.breakdown)
         /\ IsSummaryRow(rows[1])
         /\ \A k \in 2..Len(rows) : ~IsSummaryRow(rows[k])
         /\ (Cardinality(TierKeys(acc)) = Len(acc.breakdown)
               => Len(rows) = 1 + Cardinality(TierKeys(acc)))

C4_Witness ==
  /\ Rendered
  /\ \E r \in 1..Len(top_prefixes) :
       /\ Cardinality(TierKeys(top_prefixes[r][4])) < Len(top_prefixes[r][4].breakdown)
       /\ Len(RowsOfRank(r)) = 3

(* ---------------- C5 ---------------- *)

\* C5 as stated: exchanging two rows of the same table in the arrival order
\* yields the same keys and, for each key, the same totals and the same
\* breakdown list.  (Every arrival order of a table's rows is reached by such
\* exchanges, and each order on the way is itself a run of the model.)
C5_OrderIndependentLists ==
  pc = "rank" =>
    \A i, j \in 1..Len(log) :
      SameTable(i, j) =>
        LET Q == Aggregate(Exchanged(i, j))
        IN /\ Keys(Q) = Keys(prefixes)
           /\ \A key \in Keys(prefixes) :
                /\ SameTotals(Lookup(Q, key), Lookup(prefixes, key))
                /\ Lookup(Q, key).breakdown = Lookup(prefixes, key).breakdown

\* C5 amended: exchanging two rows of the same table in the arrival order
\* yields the same keys and, for each key, the same totals and the same
\* breakdown entries with the same multiplicities; the order of a breakdown
\* list follows the arrival order.
C5_OrderIndependentBags ==
  pc = "rank" =>
    \A i, j \in 1..Len(log) :
      SameTable(i, j) =>
        LET Q == Aggregate(Exchanged(i, j))
        IN /\ Keys(Q) = Keys(prefixes)
           /\ \A key \in Keys(prefixes) :
                /\ SameTotals(Lookup(Q, key), Lookup(prefixes, key))
                /\ BagOf(Lookup(Q, key).breakdown) = BagOf(Lookup(prefixes, key).breakdown)

C5_Witness ==
  /\ pc = "rank"
  /\ \E i, j \in 1..Len(log) : \E key \in Keys(prefixes) :
       /\ SameTable(i, j)
       /\ Lookup(Aggregate(Exchanged(i, j)), key).breakdown # Lookup(prefixes, key).breakdown
       /\ Lookup(prefixes, key).total_cost_usd # 0

(* ---------------- C6 ---------------- *)

\* C6: the summary rows carry ranks 1..k in order, one per ranked entry; the
\* total cost never increases from one ranked entry to the next; no accumulator
\* left out of the ranked list costs strictly more than one that is in it.
C6_RankOrdering ==
  Rendered =>
    LET summaries == SelectSeq(report_rows, IsSummaryRow)
    IN /\ Len(summaries) = Len(top_prefixes)
       /\ \A i \in 1..Len(summaries) :
            /\ summaries[i][1] = i
            /\ <<summaries[i][2], summaries[i][3]>> = top_prefixes[i][4].key
       /\ \A i \in 1..Len(report_rows) : report_rows[i][1] \in 1..Len(top_prefixes)
       /\ \A i \in 1..(Len(report_rows) - 1) :
            report_rows[i + 1][1] \in {report_rows[i][1], report_rows[i][1] + 1}
       /\ \A i \in 1..(Len(top_prefixes) - 1) :
            top_prefixes[i][4].total_cost_usd >= top_prefixes[i + 1][4].total_cost_usd
       /\ \A i \in 1..Len(top_prefixes) : top_prefixes[i][4] \in Range(prefixes)
       /\ \A i \in 1..Len(prefixes) : \A j \in 1..Len(top_prefixes) :
            ~InTop(prefixes[i]) =>
               prefixes[i].total_cost_usd <= top_prefixes[j][4].total_cost_usd

C6_Witness ==
  /\ Rendered
  /\ Len(top_prefixes) = 2
  /\ top_prefixes[1][4].total_cost_usd > top_prefixes[2][4].total_cost_usd
  /\ prefixes[1].total_cost_usd < prefixes[2].total_cost_usd
  /\ \E i \in 1..Len(prefixes) : ~InTop(prefixes[i])

(* ---------------- C7 ---------------- *)

\* C7: among accumulators of equal total cost the one created earlier in the
\* aggregation pass gets the smaller rank, and when the cut at TOP_N falls
\* inside a group of ties the earlier-created ones are kept.
C7_TiesFirstSeen ==
  Ranked =>
    /\ \A i, j \in 1..Len(top_prefixes) :
         (i < j /\ top_prefixes[i][4].total_cost_usd = top_prefixes[j][4].total_cost_usd)
           => FirstSeen(top_prefixes[i][4].key) < FirstSeen(top_prefixes[j][4].key)
    /\ \A i \in 1..Len(prefixes) : \A j \in 1..Len(top_prefixes) :
         (~InTop(prefixes[i])
            /\ prefixes[i].total_cost_usd = top_prefixes[j][4].total_cost_usd)
           => FirstSeen(top_prefixes[j][4].key) < FirstSeen(prefixes[i].key)

C7_Witness ==
  /\ Ranked
  /\ Len(top_prefixes) = 2
  /\ top_prefixes[1][4].total_cost_usd = top_prefixes[2][4].total_cost_usd
  /\ \E i \in 1..Len(prefixes) :
       /\ ~InTop(prefixes[i])
       /\ prefixes[i].total_cost_usd = top_prefixes[2][4].total_cost_usd

(* ---------------- C8 ---------------- *)

\* C8: reading a record with fewer than 6 fields changes nothing but the
\* reader's position: the mapping is unchanged and the row loop of the same
\* table goes on.
C8_ShortRowFrame ==
  [][(Len(log') = Len(log) + 1 /\ IsShortRow(log'[Len(log')][2]))
       => (/\ prefixes' = prefixes
           /\ pc = "rows" /\ pc' = "rows"
           /\ idx' = idx
           /\ UNCHANGED <<query_ids, state, TOP_N, top_prefixes, report_rows,
                          s3_puts, ses_sent>>)]_vars

C8_Witness ==
  \E i, j \in 1..Len(log) :
    /\ i < j
    /\ IsShortRow(log[i][2]) /\ Len(log[i][2]) = 4
    /\ ~IsShortRow(log[j][2])
    /\ log[i][1] = log[j][1]
    /\ Keys(prefixes) = {KeyOfLog(j)}

(* ---------------- C9 ---------------- *)

\* the step that gives up a table: the query ended FAILED or CANCELLED, or
\* get_object raised
SkipsTable ==
  \/ pc = "poll" /\ state' \in {"FAILED", "CANCELLED"}
  \/ pc = "fetch" /\ pc' # "rows"

====
